---------------------------- MODULE Spec2Model ----------------------------
(***************************************************************************)
(* The session lifecycle of the two assessment components of the          *)
(* repository:                                                             *)
(*   ExcelAssessment            (free-text questions)                      *)
(*   InteractiveExcelAssessment (timed spreadsheet tasks)                  *)
(* Each handler of a component is one action.  An awaited Evaluator call   *)
(* splits its handler in two: the part before the await (which issues the  *)
(* request and records the closure of the render it ran in) and the        *)
(* continuation, which runs when the request resolves.  A page shows one   *)
(* of the two components; `component` says which.                          *)
(***************************************************************************)
EXTENDS Integers, Sequences, FiniteSets, TLC

VARIABLES
    component,          \* the component the page mounts
    now,                \* wall clock (logical), as read by `new Date()`
    failures,           \* how each call that got no scored text failed, so far
    evaluator,          \* a call of evaluateAnswer / evaluateTask on its own
    scoring,            \* a computation of the overall score on its own
    \* ---- ExcelAssessment (useState cells) ----
    interviewStage, currentQuestionIndex, answers, qCheatingFlags, qIsLoading,
    currentAnswer, startTime, qApiKey, qShowApiKeyInput,
    qInFlight,          \* suspended handleSubmitAnswer calls (at the await)
    \* ---- InteractiveExcelAssessment (useState cells) ----
    assessmentStage, currentTaskIndex, taskResults, spreadsheetActions,
    tCheatingFlags, taskStartTime, timeRemaining, tIsLoading, tApiKey,
    tShowApiKeyInput, spreadsheetData,
    selectedCell,       \* <<rowIndex, colIndex>> of the cell that 'A1', 'F2', ... names
    cellFormula,        \* the text of the formula bar
    interval,           \* the setInterval of the timer effect, with its closure
    tInFlight           \* suspended handleTaskComplete calls (at the await)

shared == <<component, now, failures, evaluator, scoring>>
qvars == <<interviewStage, currentQuestionIndex, answers, qCheatingFlags,
           qIsLoading, currentAnswer, startTime, qApiKey, qShowApiKeyInput,
           qInFlight>>
tvars == <<assessmentStage, currentTaskIndex, taskResults, spreadsheetActions,
           tCheatingFlags, taskStartTime, timeRemaining, tIsLoading, tApiKey,
           tShowApiKeyInput, spreadsheetData, interval, tInFlight,
           selectedCell, cellFormula>>
barvars == <<selectedCell, cellFormula>>
vars == <<shared, qvars, tvars>>

---------------------------------------------------------------------------
(* Bounds of the model.                                                    *)

\* Seconds of countdown that one modelled second stands for: the time
\* limits of EXCEL_TASKS are divided by it.
TimeScale == 90
\* Events of one session other than start, submit, tick and a scored
\* response: integrity flags, cell edits, a text standing in the formula
\* bar, failures of the Evaluator, and Evaluator calls issued while another
\* one is unresolved.
MaxEvents == 1

---------------------------------------------------------------------------
(* Static data.                                                            *)

EXCEL_QUESTIONS ==
    << "In your own words, what is the primary purpose of VLOOKUP in Excel?",
       "You have a dataset where column A contains Product IDs and column B contains Product Names. On another sheet, you have a Product ID in cell C2. Write the VLOOKUP formula to find the corresponding Product Name.",
       "What is the difference between VLOOKUP's TRUE and FALSE arguments for the [range_lookup] parameter? When would you use TRUE?",
       "VLOOKUP returns an #N/A error. List three common reasons why this might be happening.",
       "What are the main advantages of using INDEX and MATCH together over VLOOKUP?" >>

EXCEL_TASKS ==
    << [id |-> 1, title |-> "Basic VLOOKUP", timeLimit |-> 180],
       [id |-> 2, title |-> "Data Validation & Formatting", timeLimit |-> 300],
       [id |-> 3, title |-> "INDEX MATCH Alternative", timeLimit |-> 240],
       [id |-> 4, title |-> "Error Handling", timeLimit |-> 300],
       [id |-> 5, title |-> "Advanced Analysis", timeLimit |-> 420] >>

SAMPLE_DATA ==
    << <<"Product ID", "Product Name", "Price", "Category">>,
       <<"P001", "Laptop Pro", "1299.99", "Electronics">>,
       <<"P002", "Wireless Mouse", "29.99", "Electronics">>,
       <<"P003", "Office Chair", "249.50", "Furniture">>,
       <<"P004", "Desk Lamp", "89.99", "Furniture">>,
       <<"P005", "Notebook Set", "15.99", "Stationery">>,
       <<"P006", "Pen Collection", "24.99", "Stationery">>,
       <<"P007", "Monitor 4K", "599.99", "Electronics">>,
       <<"P008", "Keyboard Pro", "149.99", "Electronics">> >>

\* EXCEL_TASKS[i] of the source (0-based), or the fact that it is undefined.
HasTask(i) == i >= 0 /\ i < Len(EXCEL_TASKS)
Task(i) == EXCEL_TASKS[i + 1]
\* The countdown a task starts with, in modelled seconds.
timeLimit(i) == Task(i).timeLimit \div TimeScale

\* A Date that is null.  Every Date read from the clock is >= 1.
NoDate == 0


---------------------------------------------------------------------------
(* The Evaluator's HTTP response and the text it carries.                  *)
(*                                                                         *)
(* A text is a sequence of lexemes whose concatenation is the string: the  *)
(* fence FENCE, the word "json", a line break, and JSON literals or prose. *)
(* A response is what `fetch` gives: it rejects, or resolves with a status *)
(* and a body; the body is not JSON, or JSON without candidates[0], or     *)
(* JSON whose candidates[0].content.parts[0] has no text, or has a text.   *)

\* The fence of a code block: three backquotes, a character a TLA+ string
\* cannot hold, written here with three apostrophes.
FENCE == "'''"
SCORED == "{\"score\":8,\"justification\":\"ok\"}"
PROSE == "Great answer!"
\* A JSON object whose score is outside 0..10.
OVERSCORED == "{\"score\":15,\"justification\":\"ok\"}"

\* JSON.parse of one literal (the value it denotes).
JSONLiteral(lexeme) ==
    CASE lexeme = SCORED -> [type |-> "object", score |-> 8, justification |-> "ok"]
      [] lexeme = OVERSCORED -> [type |-> "object", score |-> 15, justification |-> "ok"]
      [] lexeme = "{}"   -> [type |-> "object"]
      [] lexeme = "42"   -> [type |-> "number"]
      [] lexeme = "null" -> [type |-> "null"]
      [] OTHER           -> [type |-> "SyntaxError"]

RECURSIVE SkipWhitespace(_)
SkipWhitespace(text) ==
    IF text # <<>> /\ Head(text) = "\n" THEN SkipWhitespace(Tail(text)) ELSE text

RECURSIVE Reverse(_)
Reverse(s) == IF s = <<>> THEN <<>> ELSE Append(Reverse(Tail(s)), Head(s))

\* JSON.parse(text): white space around one value, anything else throws.
JSON_parse(text) ==
    LET body == Reverse(SkipWhitespace(Reverse(SkipWhitespace(text))))
    IN  IF Len(body) = 1 THEN JSONLiteral(body[1]) ELSE [type |-> "SyntaxError"]

\* aiResponse.replace(/FENCE json\n?|\n?FENCE/g, ''): scanning from the left,
\* each match of the fence and "json" with an optional line break after it,
\* or of the fence with an optional line break before it, is removed.
RECURSIVE StripFences(_)
StripFences(text) ==
    IF text = <<>> THEN <<>>
    ELSE IF Len(text) >= 2 /\ text[1] = FENCE /\ text[2] = "json"
         THEN IF Len(text) >= 3 /\ text[3] = "\n"
              THEN StripFences(SubSeq(text, 4, Len(text)))
              ELSE StripFences(SubSeq(text, 3, Len(text)))
    ELSE IF Len(text) >= 2 /\ text[1] = "\n" /\ text[2] = FENCE
         THEN StripFences(SubSeq(text, 3, Len(text)))
    ELSE IF text[1] = FENCE
         THEN StripFences(Tail(text))
    ELSE <<Head(text)>> \o StripFences(Tail(text))

\* parsed.score || 0
ScoreOr0(parsed) ==
    IF parsed.type = "object" /\ "score" \in DOMAIN parsed /\ parsed.score # 0
    THEN parsed.score ELSE 0

\* parsed.justification || fallback
JustificationOr(parsed, fallback) ==
    IF parsed.type = "object" /\ "justification" \in DOMAIN parsed
       /\ parsed.justification # ""
    THEN parsed.justification ELSE fallback

\* The outcome of the inner try: reading a property of null throws, as a
\* syntax error does, and the inner catch returns `caught`.
ParsedOutcome(parsed, unable, caught) ==
    IF parsed.type \in {"SyntaxError", "null"}
    THEN caught
    ELSE [score |-> ScoreOr0(parsed),
          justification |-> JustificationOr(parsed, unable)]

\* Throws without the check of response.ok.
ThrowsUncheckedStatus(response) ==
    \/ response.fetch = "rejected"
    \/ response.body \in {"not_json", "no_candidates"}

\* The outer try up to `aiResponse`: TRUE when it throws (fetch rejects,
\* !response.ok, response.json() rejects, data.candidates[0] is undefined).
Throws(response) ==
    \/ response.fetch = "rejected"
    \/ ~response.ok
    \/ response.body \in {"not_json", "no_candidates"}

\* evaluateAnswer without its check of the credential.
evaluateAnswerNoKeyCheck(apiKey, response) ==
    IF Throws(response)
    THEN [score |-> 0, justification |-> "Error occurred during evaluation"]
    ELSE ParsedOutcome(
            IF response.body = "no_text" THEN [type |-> "SyntaxError"]
            ELSE JSON_parse(response.text),
            "Unable to evaluate answer",
            [score |-> 5,
             justification |-> "Answer received but could not be properly evaluated"])

evaluateAnswer(apiKey, response) ==
    IF apiKey = ""
    THEN [score |-> 0, justification |-> "API key required for evaluation"]
    ELSE IF Throws(response)
    THEN [score |-> 0, justification |-> "Error occurred during evaluation"]
    ELSE ParsedOutcome(
            IF response.body = "no_text" THEN [type |-> "SyntaxError"]
            ELSE JSON_parse(response.text),
            "Unable to evaluate answer",
            [score |-> 5,
             justification |-> "Answer received but could not be properly evaluated"])

evaluateTask(apiKey, taskId, response) ==
    IF apiKey = ""
    THEN [score |-> 0, justification |-> "API key required for evaluation"]
    ELSE IF ~(\E i \in 1..Len(EXCEL_TASKS) : EXCEL_TASKS[i].id = taskId)
    THEN [score |-> 0, justification |-> "Task not found"]
    ELSE IF Throws(response)
    THEN [score |-> 0, justification |-> "Error occurred during evaluation"]
    ELSE ParsedOutcome(
            IF response.body = "no_text" THEN [type |-> "SyntaxError"]
            ELSE JSON_parse(StripFences(response.text)),
            "Unable to evaluate task",
            [score |-> 5,
             justification |-> "Task received but could not be properly evaluated"])

Response(fetch, ok, body, text) ==
    [fetch |-> fetch, ok |-> ok, body |-> body, text |-> text]

\* What a call that returns before its fetch has for a response.
NoResponse == Response("none", FALSE, "none", <<>>)

\* The call gets as far as its fetch: `if (!apiKey) return` and, in
\* evaluateTask, `if (!task) return` come before it.
evaluateAnswerFetches(apiKey) == apiKey # ""
evaluateTaskFetches(apiKey, taskId) ==
    apiKey # "" /\ \E i \in 1..Len(EXCEL_TASKS) : EXCEL_TASKS[i].id = taskId

Fenced(lexeme) == <<FENCE, "json", "\n", lexeme, "\n", FENCE>>

\* The texts and the responses the model lets the Evaluator give.
Texts == { <<SCORED>>, Fenced(SCORED), <<PROSE>>, <<OVERSCORED>> }

Responses ==
    { Response("rejected", FALSE, "none", <<>>),
      Response("resolved", FALSE, "none", <<>>),
      Response("resolved", TRUE, "not_json", <<>>),
      Response("resolved", TRUE, "no_candidates", <<>>),
      Response("resolved", TRUE, "no_text", <<>>) }
    \cup { Response("resolved", TRUE, "text", t) : t \in Texts }

---------------------------------------------------------------------------
(* Inputs of the user.                                                     *)

\* What the credential textarea can hold.
ApiKeys == {"", "AIza-key"}

\* What the answer textarea can hold: a sequence of characters.
AnswerTexts == { <<>>, <<" ">>, <<" ", "a">> }

\* String.prototype.trim()
RECURSIVE TrimStart(_)
TrimStart(text) ==
    IF text # <<>> /\ Head(text) = " " THEN TrimStart(Tail(text)) ELSE text
trim(text) == Reverse(TrimStart(Reverse(TrimStart(text))))

Flag(type, timestamp) == [type |-> type, timestamp |-> timestamp]

\* A response that carries the scored text as it is.
Scored(response) == response.body = "text" /\ response.text = <<SCORED>>

\* The events of the session so far that MaxEvents bounds.
Overlap(inFlight) == IF Len(inFlight) > 1 THEN Len(inFlight) - 1 ELSE 0
QEvents == Len(qCheatingFlags) + Len(failures) + Overlap(qInFlight)
TEvents == Len(tCheatingFlags) + Len(spreadsheetActions) + Len(failures)
           + Overlap(tInFlight) + (IF cellFormula # <<>> THEN 1 ELSE 0)

\* An Evaluator call may be issued: counted when another is unresolved.
MayIssue(inFlight, events) == inFlight = <<>> \/ events < MaxEvents

\* How a call that got no scored text failed: in transport (the fetch
\* rejected, or the status is not a success), or with a response received.
Failure(response) ==
    IF response.fetch = "rejected" \/ ~response.ok THEN "transport" ELSE "received"

\* The Evaluator answers `response`: counted unless it is a scored text.
Answered(response, events) ==
    IF Scored(response)
    THEN UNCHANGED failures
    ELSE events < MaxEvents /\ failures' = Append(failures, Failure(response))

---------------------------------------------------------------------------
(* ExcelAssessment                                                         *)

QInit ==
    /\ interviewStage = "welcome"
    /\ currentQuestionIndex = 0
    /\ answers = <<>>
    /\ qCheatingFlags = <<>>
    /\ qIsLoading = FALSE
    /\ currentAnswer = <<>>
    /\ startTime = NoDate
    /\ qApiKey = ""
    /\ qShowApiKeyInput = FALSE
    /\ qInFlight = <<>>

Q == component = "ExcelAssessment"

\* onChange of a credential textarea that every screen shows.
QSetApiKeyAnyStage(value) ==
    /\ Q
    /\ qApiKey' = value
    /\ UNCHANGED <<interviewStage, currentQuestionIndex, answers, qCheatingFlags,
                   qIsLoading, currentAnswer, startTime, qShowApiKeyInput,
                   qInFlight, shared, tvars>>

\* onChange of the credential textarea (shown on the welcome screen only).
QSetApiKey(value) ==
    /\ Q /\ interviewStage = "welcome" /\ qShowApiKeyInput
    /\ qApiKey' = value
    /\ UNCHANGED <<interviewStage, currentQuestionIndex, answers, qCheatingFlags,
                   qIsLoading, currentAnswer, startTime, qShowApiKeyInput,
                   qInFlight, shared, tvars>>

\* startAssessment without its check of the credential.
QStartAssessmentUnchecked ==
    /\ Q /\ interviewStage = "welcome"
    /\ now' = now + 1
    /\ startTime' = now'
    /\ interviewStage' = "interview"
    /\ UNCHANGED <<currentQuestionIndex, answers, qCheatingFlags, qIsLoading,
                   currentAnswer, qApiKey, qShowApiKeyInput, qInFlight,
                   component, failures, evaluator, scoring, tvars>>

\* startAssessment, by the start button (disabled while the credential
\* input is shown and empty).
QStartAssessment ==
    /\ Q /\ interviewStage = "welcome"
    /\ ~(qShowApiKeyInput /\ qApiKey = "")
    /\ IF qApiKey = ""
       THEN /\ qShowApiKeyInput' = TRUE
            /\ UNCHANGED <<startTime, interviewStage, now>>
       ELSE /\ now' = now + 1
            /\ startTime' = now'
            /\ interviewStage' = "interview"
            /\ UNCHANGED qShowApiKeyInput
    /\ UNCHANGED <<currentQuestionIndex, answers, qCheatingFlags, qIsLoading,
                   currentAnswer, qApiKey, qInFlight, component, failures,
                   evaluator, scoring, tvars>>

\* onChange of the answer textarea (disabled while isLoading).
QSetCurrentAnswer(value) ==
    /\ Q /\ interviewStage = "interview" /\ ~qIsLoading
    /\ currentAnswer' = value
    /\ UNCHANGED <<interviewStage, currentQuestionIndex, answers, qCheatingFlags,
                   qIsLoading, startTime, qApiKey, qShowApiKeyInput, qInFlight,
                   shared, tvars>>

\* handlePaste, onPaste of the answer textarea.
QHandlePaste ==
    /\ Q /\ interviewStage = "interview" /\ ~qIsLoading
    /\ QEvents < MaxEvents
    /\ qCheatingFlags' = Append(qCheatingFlags, Flag("paste", now))
    /\ UNCHANGED <<interviewStage, currentQuestionIndex, answers, qIsLoading,
                   currentAnswer, startTime, qApiKey, qShowApiKeyInput, qInFlight,
                   shared, tvars>>

\* handleVisibilityChange without its test of the stage.
QHandleVisibilityChangeAnyStage(hidden) ==
    /\ Q
    /\ IF hidden
       THEN /\ QEvents < MaxEvents
            /\ qCheatingFlags' = Append(qCheatingFlags, Flag("tab_switch", now))
       ELSE UNCHANGED qCheatingFlags
    /\ UNCHANGED <<interviewStage, currentQuestionIndex, answers, qIsLoading,
                   currentAnswer, startTime, qApiKey, qShowApiKeyInput, qInFlight,
                   shared, tvars>>

\* handleVisibilityChange, the document's visibilitychange listener.
QHandleVisibilityChange(hidden) ==
    /\ Q
    /\ IF hidden /\ interviewStage = "interview"
       THEN /\ QEvents < MaxEvents
            /\ qCheatingFlags' = Append(qCheatingFlags, Flag("tab_switch", now))
       ELSE UNCHANGED qCheatingFlags
    /\ UNCHANGED <<interviewStage, currentQuestionIndex, answers, qIsLoading,
                   currentAnswer, startTime, qApiKey, qShowApiKeyInput, qInFlight,
                   shared, tvars>>

\* handleSubmitAnswer testing the answer without trim().
QHandleSubmitAnswerUntrimmed ==
    /\ Q /\ interviewStage = "interview" /\ ~qIsLoading
    /\ IF currentAnswer = <<>>
       THEN UNCHANGED <<qIsLoading, qInFlight>>
       ELSE /\ MayIssue(qInFlight, QEvents)
            /\ qIsLoading' = TRUE
            /\ qInFlight' = Append(qInFlight,
                    [currentQuestionIndex |-> currentQuestionIndex,
                     currentAnswer |-> currentAnswer,
                     apiKey |-> qApiKey])
    /\ UNCHANGED <<interviewStage, currentQuestionIndex, answers, qCheatingFlags,
                   currentAnswer, startTime, qApiKey, qShowApiKeyInput,
                   shared, tvars>>

\* handleSubmitAnswer up to its await, by the submit button (disabled
\* while isLoading): the call is suspended with the values of its render.
QHandleSubmitAnswer ==
    /\ Q /\ interviewStage = "interview" /\ ~qIsLoading
    /\ IF trim(currentAnswer) = <<>>
       THEN UNCHANGED <<qIsLoading, qInFlight>>
       ELSE /\ MayIssue(qInFlight, QEvents)
            /\ qIsLoading' = TRUE
            /\ qInFlight' = Append(qInFlight,
                    [currentQuestionIndex |-> currentQuestionIndex,
                     currentAnswer |-> currentAnswer,
                     apiKey |-> qApiKey])
    /\ UNCHANGED <<interviewStage, currentQuestionIndex, answers, qCheatingFlags,
                   currentAnswer, startTime, qApiKey, qShowApiKeyInput,
                   shared, tvars>>

RemoveAt(s, i) == SubSeq(s, 1, i - 1) \o SubSeq(s, i + 1, Len(s))

\* The Answer handleSubmitAnswer builds from its closure and the evaluation.
NewAnswer(call, evaluation) ==
    [question |-> EXCEL_QUESTIONS[call.currentQuestionIndex + 1],
     answer |-> call.currentAnswer,
     score |-> evaluation.score,
     justification |-> evaluation.justification]

\* HasNextQuestion with the bound one too low.
HasNextQuestionShort(call) == call.currentQuestionIndex < Len(EXCEL_QUESTIONS) - 2

\* currentQuestionIndex < EXCEL_QUESTIONS.length - 1, as the suspended call
\* reads it
HasNextQuestion(call) == call.currentQuestionIndex < Len(EXCEL_QUESTIONS) - 1

\* setAnswers([...answers, newAnswer]) with the answers of the first render.
setAnswersStale(prev, newAnswer) == <<newAnswer>>

\* setAnswers(prev => [...prev, newAnswer])
setAnswers(prev, newAnswer) == Append(prev, newAnswer)

\* handleSubmitAnswer from its await on: the i-th suspended call gets
\* `response` and runs to its end.
QResolve(i, response) ==
    /\ Q /\ i \in 1..Len(qInFlight)
    /\ Answered(response, QEvents)
    /\ LET call == qInFlight[i]
           evaluation == evaluateAnswer(call.apiKey, response)
       IN  /\ answers' = setAnswers(answers, NewAnswer(call, evaluation))
           /\ currentAnswer' = <<>>
           /\ IF HasNextQuestion(call)
              THEN /\ currentQuestionIndex' = currentQuestionIndex + 1
                   /\ UNCHANGED interviewStage
              ELSE /\ interviewStage' = "report"
                   /\ UNCHANGED currentQuestionIndex
           /\ qIsLoading' = FALSE
    /\ qInFlight' = RemoveAt(qInFlight, i)
    /\ UNCHANGED <<qCheatingFlags, startTime, qApiKey, qShowApiKeyInput,
                   component, now, evaluator, scoring, tvars>>

\* 'Take Assessment Again' as a reset that keeps the integrity flags.
QReloadKeepsFlags ==
    /\ Q /\ interviewStage = "report"
    /\ interviewStage' = "welcome"
    /\ currentQuestionIndex' = 0
    /\ answers' = <<>>
    /\ qIsLoading' = FALSE
    /\ currentAnswer' = <<>>
    /\ startTime' = NoDate
    /\ qApiKey' = ""
    /\ qShowApiKeyInput' = FALSE
    /\ qInFlight' = <<>>
    /\ now' = 0
    /\ failures' = <<>>
    /\ UNCHANGED <<qCheatingFlags, component, evaluator, scoring, tvars>>

\* window.location.reload(), by 'Take Assessment Again' on the report: the
\* page and everything it held, suspended calls included, is discarded.
QReload ==
    /\ Q /\ interviewStage = "report"
    /\ interviewStage' = "welcome"
    /\ currentQuestionIndex' = 0
    /\ answers' = <<>>
    /\ qCheatingFlags' = <<>>
    /\ qIsLoading' = FALSE
    /\ currentAnswer' = <<>>
    /\ startTime' = NoDate
    /\ qApiKey' = ""
    /\ qShowApiKeyInput' = FALSE
    /\ qInFlight' = <<>>
    /\ now' = 0
    /\ failures' = <<>>
    /\ UNCHANGED <<component, evaluator, scoring, tvars>>

QNext ==
    \/ \E value \in ApiKeys : QSetApiKey(value)
    \/ QStartAssessment
    \/ \E value \in AnswerTexts : QSetCurrentAnswer(value)
    \/ QHandlePaste
    \/ \E hidden \in BOOLEAN : QHandleVisibilityChange(hidden)
    \/ QHandleSubmitAnswer
    \/ \E i \in 1..Len(qInFlight), response \in Responses : QResolve(i, response)
    \/ QReload

---------------------------------------------------------------------------
(* InteractiveExcelAssessment                                              *)

\* A cell value is a text: a sequence of lexemes, <<>> for ''.
Str(s) == <<s>>

\* The grid the screen shows: 15 rows of 8 columns, addressed from 0.
GridRows == 0..14
GridCols == 0..7
Columns == <<"A", "B", "C", "D", "E", "F", "G", "H">>

\* spreadsheetData[rowIndex]?.[colIndex] || '' of the sample data
SampleCell(rowIndex, colIndex) ==
    IF rowIndex < Len(SAMPLE_DATA) /\ colIndex < Len(SAMPLE_DATA[rowIndex + 1])
    THEN Str(SAMPLE_DATA[rowIndex + 1][colIndex + 1])
    ELSE <<>>

\* The cells the user clicks and edits, and the values the user enters.
EditCells == { <<0, 0>> }
EditValues == { <<"=", "VLOOKUP(E2,A:B,2,FALSE)">>, <<"2">> }

\* String.fromCharCode(65 + colIndex) + (rowIndex + 1)
cellName(rowIndex, colIndex) == <<Columns[colIndex + 1], rowIndex + 1>>

\* newValue.startsWith('=')
startsWithEq(text) == text # <<>> /\ Head(text) = "="

\* The values a render of the component closes over, as handleTaskComplete
\* and startNextTask read them.
Closure ==
    [currentTaskIndex |-> currentTaskIndex,
     spreadsheetActions |-> spreadsheetActions,
     taskStartTime |-> taskStartTime,
     apiKey |-> tApiKey]

NoInterval ==
    [set |-> FALSE,
     closure |-> [currentTaskIndex |-> 0, spreadsheetActions |-> <<>>,
                  taskStartTime |-> NoDate, apiKey |-> ""]]

\* useState(SAMPLE_DATA), as the grid reads it
InitialData == [cell \in GridRows \X GridCols |-> SampleCell(cell[1], cell[2])]

TInit ==
    /\ assessmentStage = "welcome"
    /\ currentTaskIndex = 0
    /\ taskResults = <<>>
    /\ spreadsheetActions = <<>>
    /\ tCheatingFlags = <<>>
    /\ taskStartTime = NoDate
    /\ timeRemaining = 0
    /\ tIsLoading = FALSE
    /\ tApiKey = ""
    /\ tShowApiKeyInput = FALSE
    /\ spreadsheetData = InitialData
    /\ selectedCell = <<0, 0>>
    /\ cellFormula = <<>>
    /\ interval = NoInterval
    /\ tInFlight = <<>>

T == component = "InteractiveExcelAssessment"

\* The tasks screen reads EXCEL_TASKS[currentTaskIndex].title: with the
\* index past the last task the render throws and the component is
\* unmounted; its handlers are gone and setState no longer has an effect.
Crashed == assessmentStage = "tasks" /\ ~HasTask(currentTaskIndex)

\* The timer effect with deps [timeRemaining] and no test of the stage.
TimerEffectStageBlind ==
    IF Crashed' THEN NoInterval
    ELSE IF timeRemaining' = timeRemaining
    THEN interval
    ELSE IF timeRemaining' > 0
    THEN [set |-> TRUE, closure |-> Closure']
    ELSE NoInterval

\* The timer effect, deps [assessmentStage, timeRemaining], after the
\* render that follows a step: when a dep changed the interval is cleared
\* and, in stage tasks with time left, set again with the closure of the
\* new render; unmounting clears it.
TimerEffect ==
    IF Crashed' THEN NoInterval
    ELSE IF assessmentStage' = assessmentStage /\ timeRemaining' = timeRemaining
    THEN interval
    ELSE IF assessmentStage' = "tasks" /\ timeRemaining' > 0
    THEN [set |-> TRUE, closure |-> Closure']
    ELSE NoInterval

TSetApiKey(value) ==
    /\ T /\ assessmentStage = "welcome" /\ tShowApiKeyInput
    /\ tApiKey' = value
    /\ UNCHANGED <<assessmentStage, currentTaskIndex, taskResults,
                   spreadsheetActions, tCheatingFlags, taskStartTime,
                   timeRemaining, tIsLoading, tShowApiKeyInput, spreadsheetData,
                   tInFlight, shared, qvars>>
    /\ UNCHANGED barvars
    /\ interval' = TimerEffect

\* startAssessment without its start of the countdown.
TStartAssessmentNoCountdown ==
    /\ T /\ assessmentStage = "welcome"
    /\ ~(tShowApiKeyInput /\ tApiKey = "")
    /\ IF tApiKey = ""
       THEN /\ tShowApiKeyInput' = TRUE
            /\ UNCHANGED <<assessmentStage, taskStartTime, now>>
       ELSE /\ assessmentStage' = "tasks"
            /\ now' = now + 1
            /\ taskStartTime' = now'
            /\ UNCHANGED tShowApiKeyInput
    /\ UNCHANGED <<currentTaskIndex, taskResults, spreadsheetActions,
                   tCheatingFlags, tIsLoading, tApiKey, spreadsheetData,
                   timeRemaining, tInFlight, component, failures, evaluator,
                   scoring, qvars>>
    /\ UNCHANGED barvars
    /\ interval' = TimerEffect

\* startAssessment, by the start button (disabled while the credential
\* input is shown and empty).
TStartAssessment ==
    /\ T /\ assessmentStage = "welcome"
    /\ ~(tShowApiKeyInput /\ tApiKey = "")
    /\ IF tApiKey = ""
       THEN /\ tShowApiKeyInput' = TRUE
            /\ UNCHANGED <<assessmentStage, taskStartTime, timeRemaining, now>>
       ELSE /\ assessmentStage' = "tasks"
            /\ now' = now + 1
            /\ taskStartTime' = now'
            /\ timeRemaining' = timeLimit(0)
            /\ UNCHANGED tShowApiKeyInput
    /\ UNCHANGED <<currentTaskIndex, taskResults, spreadsheetActions,
                   tCheatingFlags, tIsLoading, tApiKey, spreadsheetData,
                   tInFlight, component, failures, evaluator, scoring, qvars>>
    /\ UNCHANGED barvars
    /\ interval' = TimerEffect

\* handleVisibilityChange without its test of document.hidden.
THandleVisibilityChangeUntested(hidden) ==
    /\ T /\ ~Crashed
    /\ IF assessmentStage = "tasks"
       THEN /\ TEvents < MaxEvents
            /\ tCheatingFlags' = Append(tCheatingFlags, Flag("tab_switch", now))
       ELSE UNCHANGED tCheatingFlags
    /\ UNCHANGED <<assessmentStage, currentTaskIndex, taskResults,
                   spreadsheetActions, taskStartTime, timeRemaining, tIsLoading,
                   tApiKey, tShowApiKeyInput, spreadsheetData, tInFlight,
                   shared, qvars>>
    /\ UNCHANGED barvars
    /\ interval' = TimerEffect

\* handleVisibilityChange, the document's visibilitychange listener.
THandleVisibilityChange(hidden) ==
    /\ T /\ ~Crashed
    /\ IF hidden /\ assessmentStage = "tasks"
       THEN /\ TEvents < MaxEvents
            /\ tCheatingFlags' = Append(tCheatingFlags, Flag("tab_switch", now))
       ELSE UNCHANGED tCheatingFlags
    /\ UNCHANGED <<assessmentStage, currentTaskIndex, taskResults,
                   spreadsheetActions, taskStartTime, timeRemaining, tIsLoading,
                   tApiKey, tShowApiKeyInput, spreadsheetData, tInFlight,
                   shared, qvars>>
    /\ UNCHANGED barvars
    /\ interval' = TimerEffect

\* onPaste of a cell input of the grid.
TCellPaste ==
    /\ T /\ assessmentStage = "tasks" /\ ~Crashed
    /\ TEvents < MaxEvents
    /\ tCheatingFlags' = Append(tCheatingFlags, Flag("paste", now))
    /\ UNCHANGED <<assessmentStage, currentTaskIndex, taskResults,
                   spreadsheetActions, taskStartTime, timeRemaining, tIsLoading,
                   tApiKey, tShowApiKeyInput, spreadsheetData, tInFlight,
                   shared, qvars>>
    /\ UNCHANGED barvars
    /\ interval' = TimerEffect

\* handleCellClick, by a click on a cell of the grid.
handleCellClick(rowIndex, colIndex) ==
    /\ T /\ assessmentStage = "tasks" /\ ~Crashed
    /\ startsWithEq(spreadsheetData[<<rowIndex, colIndex>>])
         => TEvents - (IF cellFormula # <<>> THEN 1 ELSE 0) < MaxEvents
    /\ selectedCell' = <<rowIndex, colIndex>>
    /\ cellFormula' = IF startsWithEq(spreadsheetData[<<rowIndex, colIndex>>])
                      THEN spreadsheetData[<<rowIndex, colIndex>>]
                      ELSE <<>>
    /\ UNCHANGED <<assessmentStage, currentTaskIndex, taskResults,
                   spreadsheetActions, tCheatingFlags, taskStartTime,
                   timeRemaining, tIsLoading, tApiKey, tShowApiKeyInput,
                   spreadsheetData, tInFlight, shared, qvars>>
    /\ interval' = TimerEffect

\* onChange of the formula-bar input: setCellFormula(e.target.value).
TSetCellFormula(value) ==
    /\ T /\ assessmentStage = "tasks" /\ ~Crashed
    /\ cellFormula # <<>> \/ value = <<>> \/ TEvents < MaxEvents
    /\ cellFormula' = value
    /\ UNCHANGED <<assessmentStage, currentTaskIndex, taskResults,
                   spreadsheetActions, tCheatingFlags, taskStartTime,
                   timeRemaining, tIsLoading, tApiKey, tShowApiKeyInput,
                   spreadsheetData, tInFlight, selectedCell, shared, qvars>>
    /\ interval' = TimerEffect

\* A paste into the formula-bar input: the input has no onPaste, and the
\* text pasted arrives by its onChange.
TFormulaBarPaste(value) ==
    value # <<>> /\ TSetCellFormula(value)

\* handleCellEdit reading oldValue from the grid after its update.
handleCellEditReadsAfterUpdate(rowIndex, colIndex, newValue) ==
    /\ T /\ assessmentStage = "tasks" /\ ~Crashed
    /\ spreadsheetActions' = Append(spreadsheetActions,
            [timestamp |-> now,
             type |-> IF startsWithEq(newValue) THEN "formula_entered" ELSE "cell_edit",
             cell |-> cellName(rowIndex, colIndex),
             oldValue |-> newValue,
             newValue |-> newValue])
    /\ spreadsheetData' = [spreadsheetData EXCEPT ![<<rowIndex, colIndex>>] = newValue]
    /\ UNCHANGED <<assessmentStage, currentTaskIndex, taskResults,
                   tCheatingFlags, taskStartTime, timeRemaining, tIsLoading,
                   tApiKey, tShowApiKeyInput, tInFlight, shared, qvars>>
    /\ interval' = TimerEffect

\* handleCellEdit, by onChange of a cell input or Enter in the formula bar.
handleCellEdit(rowIndex, colIndex, newValue) ==
    /\ T /\ assessmentStage = "tasks" /\ ~Crashed
    /\ spreadsheetActions' = Append(spreadsheetActions,
            [timestamp |-> now,
             type |-> IF startsWithEq(newValue) THEN "formula_entered" ELSE "cell_edit",
             cell |-> cellName(rowIndex, colIndex),
             oldValue |-> spreadsheetData[<<rowIndex, colIndex>>],
             newValue |-> newValue])
    /\ spreadsheetData' = [spreadsheetData EXCEPT ![<<rowIndex, colIndex>>] = newValue]
    /\ UNCHANGED <<assessmentStage, currentTaskIndex, taskResults,
                   tCheatingFlags, taskStartTime, timeRemaining, tIsLoading,
                   tApiKey, tShowApiKeyInput, tInFlight, shared, qvars>>
    /\ interval' = TimerEffect

\* onChange of the input of a cell.
TCellChange(rowIndex, colIndex, newValue) ==
    /\ TEvents < MaxEvents
    /\ handleCellEdit(rowIndex, colIndex, newValue)
    /\ UNCHANGED barvars

\* Enter in the formula bar: handleCellEdit on the selected cell with the
\* text of the bar, and setCellFormula('').
TFormulaBarEnter ==
    /\ TEvents - (IF cellFormula # <<>> THEN 1 ELSE 0) < MaxEvents
    /\ handleCellEdit(selectedCell[1], selectedCell[2], cellFormula)
    /\ cellFormula' = <<>>
    /\ UNCHANGED selectedCell

RECURSIVE SelectSeqSince(_, _)
\* spreadsheetActions.filter(action => new Date(action.timestamp) >= taskStartTime)
SelectSeqSince(actions, since) ==
    IF actions = <<>> THEN <<>>
    ELSE IF Head(actions).timestamp >= since
         THEN <<Head(actions)>> \o SelectSeqSince(Tail(actions), since)
         ELSE SelectSeqSince(Tail(actions), since)

\* handleTaskComplete up to its await, run with the values of the render
\* `closure`: the call is suspended with what it read.
handleTaskComplete(closure) ==
    IF closure.taskStartTime = NoDate
    THEN UNCHANGED <<tIsLoading, tInFlight>>
    ELSE /\ MayIssue(tInFlight, TEvents)
         /\ tIsLoading' = TRUE
         /\ tInFlight' = Append(tInFlight,
                [currentTaskIndex |-> closure.currentTaskIndex,
                 taskActions |-> SelectSeqSince(closure.spreadsheetActions,
                                                closure.taskStartTime),
                 apiKey |-> closure.apiKey])

\* The 'Complete Task' button (disabled while isLoading): the handler of
\* the current render.
TCompleteTaskClick ==
    /\ T /\ assessmentStage = "tasks" /\ ~Crashed /\ ~tIsLoading
    /\ handleTaskComplete(Closure)
    /\ UNCHANGED <<assessmentStage, currentTaskIndex, taskResults,
                   spreadsheetActions, tCheatingFlags, taskStartTime,
                   timeRemaining, tApiKey, tShowApiKeyInput, spreadsheetData,
                   shared, qvars>>
    /\ UNCHANGED barvars
    /\ interval' = TimerEffect

\* One firing of the interval: setTimeRemaining(prev => ...), which at
\* prev <= 1 calls the handleTaskComplete the effect closed over.
TTick ==
    /\ T /\ interval.set
    /\ IF timeRemaining <= 1
       THEN /\ handleTaskComplete(interval.closure)
            /\ timeRemaining' = 0
       ELSE /\ timeRemaining' = timeRemaining - 1
            /\ UNCHANGED <<tIsLoading, tInFlight>>
    /\ UNCHANGED <<assessmentStage, currentTaskIndex, taskResults,
                   spreadsheetActions, tCheatingFlags, taskStartTime, tApiKey,
                   tShowApiKeyInput, spreadsheetData, shared, qvars>>
    /\ UNCHANGED barvars
    /\ interval' = TimerEffect

\* A TaskResult whose score is withheld from a session that has a flag.
NewResultPenalised(call, evaluation) ==
    [taskId |-> Task(call.currentTaskIndex).id,
     completed |-> tCheatingFlags = <<>> /\ evaluation.score >= 6,
     score |-> IF tCheatingFlags = <<>> THEN evaluation.score ELSE 0,
     justification |-> evaluation.justification,
     actions |-> call.taskActions]

\* The TaskResult handleTaskComplete builds from its closure and the
\* evaluation (task, the description of the task, and timeSpent are left out).
NewResult(call, evaluation) ==
    [taskId |-> Task(call.currentTaskIndex).id,
     completed |-> evaluation.score >= 6,
     score |-> evaluation.score,
     justification |-> evaluation.justification,
     actions |-> call.taskActions]

\* currentTaskIndex < EXCEL_TASKS.length - 1, as the suspended call reads it
HasNextTask(call) == call.currentTaskIndex < Len(EXCEL_TASKS) - 1

\* setTaskResults([...taskResults, result]) with the results of the first render.
setTaskResultsStale(prev, result) == <<result>>

\* setTaskResults(prev => [...prev, result])
setTaskResults(prev, result) == Append(prev, result)

\* handleTaskComplete from its await on, startNextTask included: the i-th
\* suspended call gets `response` and runs to its end.  When the render
\* that follows throws, the component is unmounted: its suspended calls
\* can no longer change its state and are dropped.
TResolve(i, response) ==
    /\ T /\ i \in 1..Len(tInFlight)
    /\ Answered(response, TEvents)
    /\ LET call == tInFlight[i]
           evaluation == evaluateTask(call.apiKey,
                                      Task(call.currentTaskIndex).id, response)
       IN  /\ taskResults' = setTaskResults(taskResults, NewResult(call, evaluation))
           /\ IF HasNextTask(call)
              THEN /\ currentTaskIndex' = currentTaskIndex + 1
                   /\ now' = now + 1
                   /\ taskStartTime' = now'
                   /\ timeRemaining' = timeLimit(call.currentTaskIndex + 1)
                   /\ UNCHANGED assessmentStage
              ELSE /\ assessmentStage' = "report"
                   /\ UNCHANGED <<currentTaskIndex, taskStartTime,
                                  timeRemaining, now>>
           /\ tIsLoading' = FALSE
    /\ tInFlight' = IF Crashed' THEN <<>> ELSE RemoveAt(tInFlight, i)
    /\ UNCHANGED <<spreadsheetActions, tCheatingFlags, tApiKey, tShowApiKeyInput,
                   spreadsheetData, component, evaluator, scoring, qvars>>
    /\ UNCHANGED barvars
    /\ interval' = TimerEffect

\* 'Take Assessment Again' as a mere return to the welcome screen.
TReloadStageOnly ==
    /\ T /\ assessmentStage = "report"
    /\ assessmentStage' = "welcome"
    /\ UNCHANGED <<currentTaskIndex, taskResults, spreadsheetActions,
                   tCheatingFlags, taskStartTime, timeRemaining, tIsLoading,
                   tApiKey, tShowApiKeyInput, spreadsheetData, tInFlight,
                   shared, qvars>>
    /\ UNCHANGED barvars
    /\ interval' = TimerEffect

\* window.location.reload(), by 'Take Assessment Again' on the report.
TReload ==
    /\ T /\ assessmentStage = "report"
    /\ assessmentStage' = "welcome"
    /\ currentTaskIndex' = 0
    /\ taskResults' = <<>>
    /\ spreadsheetActions' = <<>>
    /\ tCheatingFlags' = <<>>
    /\ taskStartTime' = NoDate
    /\ timeRemaining' = 0
    /\ tIsLoading' = FALSE
    /\ tApiKey' = ""
    /\ tShowApiKeyInput' = FALSE
    /\ spreadsheetData' = InitialData
    /\ selectedCell' = <<0, 0>>
    /\ cellFormula' = <<>>
    /\ interval' = NoInterval
    /\ tInFlight' = <<>>
    /\ now' = 0
    /\ failures' = <<>>
    /\ UNCHANGED <<component, evaluator, scoring, qvars>>

TNext ==
    \/ \E value \in ApiKeys : TSetApiKey(value)
    \/ TStartAssessment
    \/ \E hidden \in BOOLEAN : THandleVisibilityChange(hidden)
    \/ TCellPaste
    \/ \E cell \in EditCells : handleCellClick(cell[1], cell[2])
    \/ \E cell \in EditCells, newValue \in EditValues :
            TCellChange(cell[1], cell[2], newValue)
    \/ \E value \in {<<>>} \cup EditValues : TSetCellFormula(value)
    \/ \E value \in EditValues : TFormulaBarPaste(value)
    \/ TFormulaBarEnter
    \/ TCompleteTaskClick
    \/ TTick
    \/ \E i \in 1..Len(tInFlight), response \in Responses : TResolve(i, response)
    \/ TReload

---------------------------------------------------------------------------
(* evaluateAnswer / evaluateTask called on their own, with any credential  *)
(* and any item: the call returns at once or issues its request and waits  *)
(* for the response.                                                       *)

NoResult == [score |-> 0, justification |-> ""]

Evaluation(fn, apiKey, item, pc, requests, response, result) ==
    [fn |-> fn, apiKey |-> apiKey, item |-> item, pc |-> pc,
     requests |-> requests, response |-> response, result |-> result]

\* No call of the evaluator on its own: the page runs a session.
NoEvaluation == Evaluation("none", "", 0, "none", 0, NoResponse, NoResult)

\* The calls: evaluateAnswer on a question, evaluateTask on a task id (0 is
\* the id of no task).
EvalCalls ==
    { Evaluation("evaluateAnswer", apiKey, item, "called", 0, NoResponse, NoResult) :
        apiKey \in ApiKeys, item \in 0..(Len(EXCEL_QUESTIONS) - 1) }
    \cup
    { Evaluation("evaluateTask", apiKey, taskId, "called", 0, NoResponse, NoResult) :
        apiKey \in ApiKeys, taskId \in 0..Len(EXCEL_TASKS) }

Evaluate(call, response) ==
    IF call.fn = "evaluateAnswer"
    THEN evaluateAnswer(call.apiKey, response)
    ELSE evaluateTask(call.apiKey, call.item, response)

\* The call runs up to its fetch, or to its return when it has none.
EvalCall ==
    /\ evaluator.pc = "called"
    /\ IF  IF evaluator.fn = "evaluateAnswer"
           THEN evaluateAnswerFetches(evaluator.apiKey)
           ELSE evaluateTaskFetches(evaluator.apiKey, evaluator.item)
       THEN evaluator' = [evaluator EXCEPT !.pc = "awaiting", !.requests = @ + 1]
       ELSE evaluator' = [evaluator EXCEPT !.pc = "returned",
                                           !.result = Evaluate(evaluator, NoResponse)]
    /\ UNCHANGED <<component, now, failures, scoring, qvars, tvars>>

\* The request is answered and the call runs to its return.
EvalRespond(response) ==
    /\ evaluator.pc = "awaiting"
    /\ evaluator' = [evaluator EXCEPT !.pc = "returned", !.response = response,
                                      !.result = Evaluate(evaluator, response)]
    /\ UNCHANGED <<component, now, failures, scoring, qvars, tvars>>

\* A computation of the overall score: the function, the list it is given,
\* its position and the value it shows.
Scoring(fn, records, pc, overall) ==
    [fn |-> fn, records |-> records, pc |-> pc, overall |-> overall]

\* No computation of the overall score on its own.
NoScoring == Scoring("none", <<>>, "none", 0)

EvalInit ==
    /\ component = "none"
    /\ now = 0
    /\ failures = <<>>
    /\ evaluator \in EvalCalls
    /\ scoring = NoScoring
    /\ QInit
    /\ TInit

EvalNext == EvalCall \/ \E response \in Responses : EvalRespond(response)

EvalSpec == EvalInit /\ [][EvalNext]_vars

---------------------------------------------------------------------------
(* The overall score of the report, computed on its own on any list of     *)
(* records with integer scores.                                            *)

\* The longest list of records the overall score is computed on.
MaxRecords == 3

\* records.reduce((sum, record) => sum + record.score, 0)
RECURSIVE SumScores(_)
SumScores(records) ==
    IF records = <<>> THEN 0 ELSE Head(records).score + SumScores(Tail(records))

\* Math.floor(numerator / denominator), denominator > 0.
Math_floor(numerator, denominator) == numerator \div denominator

\* Math.round(numerator / denominator), denominator > 0: the integer
\* nearest to the quotient, the larger one when two are equally near.
Math_round(numerator, denominator) ==
    LET below == numerator \div denominator
        rest == numerator % denominator
    IN  IF 2 * rest >= denominator THEN below + 1 ELSE below

\* The overall score as the total of the scores.
calculateOverallScoreTotal(records) ==
    IF Len(records) = 0 THEN 0 ELSE SumScores(records)

\* calculateOverallScore of ExcelAssessment
calculateOverallScore(records) ==
    IF Len(records) = 0 THEN 0
    ELSE Math_round(SumScores(records), Len(records))

\* overallScore of the report screen of InteractiveExcelAssessment
overallScore(records) ==
    IF Len(records) > 0
    THEN Math_round(SumScores(records), Len(records))
    ELSE 0

RecordLists ==
    UNION { [1..n -> [score : 0..10]] : n \in 0..MaxRecords }

\* The report screen computes the overall score of the list it is given.
ScoreCompute ==
    /\ scoring.pc = "given"
    /\ scoring' = [scoring EXCEPT
            !.pc = "shown",
            !.overall = IF scoring.fn = "calculateOverallScore"
                        THEN calculateOverallScore(scoring.records)
                        ELSE overallScore(scoring.records)]
    /\ UNCHANGED <<component, now, failures, evaluator, qvars, tvars>>

ScoreInit ==
    /\ component = "none"
    /\ now = 0
    /\ failures = <<>>
    /\ evaluator = NoEvaluation
    /\ scoring \in { Scoring(fn, records, "given", 0) :
                        fn \in {"calculateOverallScore", "overallScore"},
                        records \in RecordLists }
    /\ QInit
    /\ TInit

ScoreSpec == ScoreInit /\ [][ScoreCompute]_vars

---------------------------------------------------------------------------
(* The grid of the first task, edited in any of its regions: cells of the  *)
(* sample data, cells right of it, cells below it, while the countdown     *)
(* runs and a completion is issued, the Evaluator not yet answering.       *)

\* A1 and C2 and D9 hold sample data, E1 lies right of its row, A10 below
\* its last row, H15 is the last cell of the grid.
GridEditCells == { <<0, 0>>, <<1, 2>>, <<8, 3>>, <<0, 4>>, <<9, 0>>, <<14, 7>> }

GridInit ==
    /\ component = "InteractiveExcelAssessment"
    /\ now = 0
    /\ failures = <<>>
    /\ evaluator = NoEvaluation
    /\ scoring = NoScoring
    /\ QInit
    /\ TInit

GridNext ==
    \/ \E value \in ApiKeys : TSetApiKey(value)
    \/ TStartAssessment
    \/ \E cell \in GridEditCells : handleCellClick(cell[1], cell[2])
    \/ \E cell \in GridEditCells, newValue \in EditValues :
            TCellChange(cell[1], cell[2], newValue)
    \/ \E value \in {<<>>} \cup EditValues : TSetCellFormula(value)
    \/ TFormulaBarEnter
    \/ TCompleteTaskClick
    \/ TTick

GridSpec == GridInit /\ [][GridNext]_vars

---------------------------------------------------------------------------
Init ==
    /\ component \in {"ExcelAssessment", "InteractiveExcelAssessment"}
    /\ now = 0
    /\ failures = <<>>
    /\ evaluator = NoEvaluation
    /\ scoring = NoScoring
    /\ QInit
    /\ TInit

Next == QNext \/ TNext

Spec == Init /\ [][Next]_vars

\* The scheduling the browser gives a mounted component: an interval that
\* is set fires, and a request that was issued is answered.
TResolves == \E i \in 1..Len(tInFlight), response \in Responses : TResolve(i, response)
QResolves == \E i \in 1..Len(qInFlight), response \in Responses : QResolve(i, response)

LiveSpec ==
    Init /\ [][Next]_vars /\ WF_vars(TTick) /\ WF_vars(TResolves) /\ WF_vars(QResolves)

---------------------------------------------------------------------------
(* Properties.                                                             *)

\* The number of elements of a sequence that satisfy Test.
Count(seq, Test(_)) == Cardinality({k \in 1..Len(seq) : Test(seq[k])})

\* C1: in the spreadsheet-task session handleTaskComplete takes effect at
\* most once per task, whatever the interleaving of clicks, ticks and
\* responses: for each task, the calls suspended at the Evaluator and the
\* TaskResults recorded are together at most one.
C1_CompletesOncePerTask ==
    T => \A k \in 0..(Len(EXCEL_TASKS) - 1) :
            LET OfCall(call) == call.currentTaskIndex = k
                OfResult(result) == result.taskId = Task(k).id
            IN  Count(tInFlight, OfCall) + Count(taskResults, OfResult) <= 1

\* C2: in the spreadsheet-task session, while the stage is 'tasks', the
\* number of TaskResults equals currentTaskIndex.
C2_ResultsMatchIndex ==
    (T /\ assessmentStage = "tasks") => Len(taskResults) = currentTaskIndex

\* C2 case: two tasks are done in stage 'tasks', both records for the same
\* task (a click and an expiry of one task both completed).
C2_Witness ==
    /\ T /\ assessmentStage = "tasks"
    /\ currentTaskIndex = 2 /\ Len(taskResults) = 2
    /\ taskResults[1].taskId = taskResults[2].taskId

\* C3: in the question session, while the stage is 'interview', the number
\* of Answers equals currentQuestionIndex.
C3_AnswersMatchIndex ==
    (Q /\ interviewStage = "interview") => Len(answers) = currentQuestionIndex

\* C3 case: three questions answered, the fourth submitted and in flight.
C3_Witness ==
    /\ Q /\ interviewStage = "interview"
    /\ currentQuestionIndex = 3 /\ Len(answers) = 3 /\ qInFlight # <<>>

\* C4: in the spreadsheet-task session, at the report taskResults holds
\* exactly one entry per task of EXCEL_TASKS, in the order of EXCEL_TASKS.
C4_ReportHasEachTaskOnce ==
    (T /\ assessmentStage = "report") =>
        /\ Len(taskResults) = Len(EXCEL_TASKS)
        /\ \A k \in 1..Len(taskResults) : taskResults[k].taskId = EXCEL_TASKS[k].id

\* C5: in the question session, at the report answers holds exactly one
\* entry per question of EXCEL_QUESTIONS, in the order of EXCEL_QUESTIONS.
C5_ReportHasEachQuestionOnce ==
    (Q /\ interviewStage = "report") =>
        /\ Len(answers) = Len(EXCEL_QUESTIONS)
        /\ \A k \in 1..Len(answers) : answers[k].question = EXCEL_QUESTIONS[k]

\* C5 case: the question session has reached its report.
C5_Witness ==
    Q /\ interviewStage = "report" /\ Len(answers) = 5

\* C6: in both sessions isLoading is true whenever an Evaluator call of the
\* session is unresolved.
C6_LoadingCoversEvaluation ==
    /\ (Q /\ qInFlight # <<>>) => qIsLoading
    /\ (T /\ tInFlight # <<>>) => tIsLoading

\* The values of Init, in a state.
QIsInitial == QInit
TIsInitial == TInit

\* C7: in both sessions the stage moves only welcome -> active -> report,
\* and leaves report only by the full reset, which gives the initial state.
C7_StageOrder ==
    [][ /\ interviewStage' # interviewStage =>
            \/ interviewStage = "welcome" /\ interviewStage' = "interview"
            \/ interviewStage = "interview" /\ interviewStage' = "report"
            \/ interviewStage = "report" /\ QIsInitial'
        /\ assessmentStage' # assessmentStage =>
            \/ assessmentStage = "welcome" /\ assessmentStage' = "tasks"
            \/ assessmentStage = "tasks" /\ assessmentStage' = "report"
            \/ assessmentStage = "report" /\ TIsInitial'
      ]_vars

\* C7 case: the task session is at its report and a call that was issued
\* in stage 'tasks' is still to resolve.
C7_Witness ==
    T /\ assessmentStage = "report" /\ tInFlight # <<>>

TransportFailures == { r \in Responses : r.fetch = "rejected" \/ ~r.ok }

ErrorOccurred(record) ==
    record.score = 0 /\ record.justification = "Error occurred during evaluation"

\* C8: in both sessions a call that fails in transport (fetch rejects, or
\* the status is not a success) appends a record with score 0 and
\* 'Error occurred during evaluation' for the item of the call, and the
\* session advances as after a scored response: to the next item, or to
\* the report after the last one, with isLoading false.
C8_TransportFailure ==
    [][ \A r \in TransportFailures :
          /\ \A i \in 1..Len(qInFlight) : QResolve(i, r) =>
                /\ Len(answers') = Len(answers) + 1
                /\ SubSeq(answers', 1, Len(answers)) = answers
                /\ ErrorOccurred(answers'[Len(answers')])
                /\ answers'[Len(answers')].question
                     = EXCEL_QUESTIONS[qInFlight[i].currentQuestionIndex + 1]
                /\ IF qInFlight[i].currentQuestionIndex < 4
                   THEN /\ currentQuestionIndex' = currentQuestionIndex + 1
                        /\ interviewStage' = interviewStage
                   ELSE /\ currentQuestionIndex' = currentQuestionIndex
                        /\ interviewStage' = "report"
                /\ ~qIsLoading'
          /\ \A i \in 1..Len(tInFlight) : TResolve(i, r) =>
                /\ Len(taskResults') = Len(taskResults) + 1
                /\ SubSeq(taskResults', 1, Len(taskResults)) = taskResults
                /\ ErrorOccurred(taskResults'[Len(taskResults')])
                /\ taskResults'[Len(taskResults')].taskId
                     = EXCEL_TASKS[tInFlight[i].currentTaskIndex + 1].id
                /\ IF tInFlight[i].currentTaskIndex < 4
                   THEN /\ currentTaskIndex' = currentTaskIndex + 1
                        /\ assessmentStage' = assessmentStage
                   ELSE /\ currentTaskIndex' = currentTaskIndex
                        /\ assessmentStage' = "report"
                /\ ~tIsLoading'
      ]_vars

\* C8 case: the call of the last task failed in transport and the session
\* is at its report with the fallback record.
C8_Witness ==
    /\ T /\ assessmentStage = "report" /\ failures = <<"transport">>
    /\ Len(taskResults) = 5 /\ ErrorOccurred(taskResults[5])

\* A response received with a success status that is not in the expected
\* shape: no candidates[0].content.parts[0].text, or a text that, fences
\* apart, is not a JSON object.
Malformed ==
    { r \in Responses :
        /\ r.fetch = "resolved" /\ r.ok
        /\ \/ r.body \in {"no_candidates", "no_text"}
           \/ r.body = "text" /\ JSON_parse(StripFences(r.text)).type # "object" }

\* C9: in both sessions a response received with a success status but not
\* in the expected shape gives score 5, never score 0.
C9_MalformedGivesFive ==
    [][ \A r \in Malformed :
          /\ \A i \in 1..Len(qInFlight) : QResolve(i, r) =>
                answers'[Len(answers')].score = 5
          /\ \A i \in 1..Len(tInFlight) : TResolve(i, r) =>
                taskResults'[Len(taskResults')].score = 5
      ]_vars

FencedScored == Response("resolved", TRUE, "text", Fenced(SCORED))

\* C10: in both sessions a scored JSON object wrapped in a fenced code
\* block gives the score and justification it contains.
C10_FenceIsStripped ==
    [][ /\ \A i \in 1..Len(qInFlight) : QResolve(i, FencedScored) =>
              /\ answers'[Len(answers')].score = 8
              /\ answers'[Len(answers')].justification = "ok"
        /\ \A i \in 1..Len(tInFlight) : TResolve(i, FencedScored) =>
              /\ taskResults'[Len(taskResults')].score = 8
              /\ taskResults'[Len(taskResults')].justification = "ok"
      ]_vars

\* C11: in both sessions every record of the result list has a score that
\* is an integer from 0 to 10, whatever score the Evaluator's response holds.
C11_ScoreInRange ==
    /\ \A k \in 1..Len(answers) : answers[k].score \in 0..10
    /\ \A k \in 1..Len(taskResults) : taskResults[k].score \in 0..10

\* C12: in both sessions the start action taken in welcome with an empty
\* apiKey leaves the stage at welcome, sets showApiKeyInput, and changes
\* nothing else; and the stage becomes active only by a start action taken
\* with a non-empty apiKey.
C12_StartNeedsCredential ==
    [][ /\ (QStartAssessment /\ qApiKey = "") =>
              /\ interviewStage' = "welcome" /\ qShowApiKeyInput'
              /\ UNCHANGED <<currentQuestionIndex, answers, qCheatingFlags,
                             qIsLoading, currentAnswer, startTime, qApiKey,
                             qInFlight, shared, tvars>>
        /\ (TStartAssessment /\ tApiKey = "") =>
              /\ assessmentStage' = "welcome" /\ tShowApiKeyInput'
              /\ UNCHANGED <<currentTaskIndex, taskResults, spreadsheetActions,
                             tCheatingFlags, taskStartTime, timeRemaining,
                             tIsLoading, tApiKey, spreadsheetData, interval,
                             tInFlight, shared, qvars>>
        /\ (interviewStage # "interview" /\ interviewStage' = "interview") =>
              QStartAssessment /\ qApiKey # ""
        /\ (assessmentStage # "tasks" /\ assessmentStage' = "tasks") =>
              TStartAssessment /\ tApiKey # ""
      ]_vars

\* C12 case: the start action was taken with an empty apiKey: the session
\* is in welcome and shows the credential input, still empty.
C12_Witness ==
    Q /\ interviewStage = "welcome" /\ qShowApiKeyInput /\ qApiKey = ""

\* C13: in both sessions the evaluator called with an empty apiKey returns
\* score 0 with 'API key required for evaluation' and issues no request.
C13_NoCredentialNoRequest ==
    (evaluator.pc = "returned" /\ evaluator.apiKey = "") =>
        /\ evaluator.result =
              [score |-> 0, justification |-> "API key required for evaluation"]
        /\ evaluator.requests = 0

\* C13 case: evaluateAnswer was called with an empty apiKey and has returned.
C13_Witness ==
    /\ evaluator.fn = "evaluateAnswer" /\ evaluator.apiKey = ""
    /\ evaluator.pc = "returned"

\* The number of flags of a type.
Flags(flags, type) == Cardinality({k \in 1..Len(flags) : flags[k].type = type})

\* The step adds `pastes` 'paste' flags and `switches` 'tab_switch' flags
\* at the end of the flags.
QAdds(pastes, switches) ==
    /\ Flags(qCheatingFlags', "paste") = Flags(qCheatingFlags, "paste") + pastes
    /\ Flags(qCheatingFlags', "tab_switch")
         = Flags(qCheatingFlags, "tab_switch") + switches
    /\ SubSeq(qCheatingFlags', 1, Len(qCheatingFlags)) = qCheatingFlags
TAdds(pastes, switches) ==
    /\ Flags(tCheatingFlags', "paste") = Flags(tCheatingFlags, "paste") + pastes
    /\ Flags(tCheatingFlags', "tab_switch")
         = Flags(tCheatingFlags, "tab_switch") + switches
    /\ SubSeq(tCheatingFlags', 1, Len(tCheatingFlags)) = tCheatingFlags

\* C14: in both sessions, in the active stage, a paste on the answer
\* textarea or on a cell input adds exactly one 'paste' flag and no
\* 'tab_switch' flag, a visibilitychange that finds the document hidden
\* adds exactly one 'tab_switch' flag and no 'paste' flag, and one that
\* finds it visible adds no flag.
C14_OneFlagPerEvent ==
    [][ /\ (interviewStage = "interview" /\ QHandlePaste) => QAdds(1, 0)
        /\ (interviewStage = "interview" /\ QHandleVisibilityChange(TRUE))
              => QAdds(0, 1)
        /\ (interviewStage = "interview" /\ QHandleVisibilityChange(FALSE))
              => QAdds(0, 0)
        /\ (assessmentStage = "tasks" /\ TCellPaste) => TAdds(1, 0)
        /\ (assessmentStage = "tasks" /\ THandleVisibilityChange(TRUE))
              => TAdds(0, 1)
        /\ (assessmentStage = "tasks" /\ THandleVisibilityChange(FALSE))
              => TAdds(0, 0)
      ]_vars

\* C14 case: in stage 'tasks' a flag has been recorded.
C14_Witness ==
    T /\ assessmentStage = "tasks" /\ Len(tCheatingFlags) = 1

\* C15: in both sessions no flag is recorded outside the active stage:
\* cheatingFlags is empty in welcome, and a step taken in welcome or in
\* report leaves cheatingFlags as it is, or is the reload that empties it.
C15_NoFlagOutsideActive ==
    /\ [](interviewStage = "welcome" => qCheatingFlags = <<>>)
    /\ [](assessmentStage = "welcome" => tCheatingFlags = <<>>)
    /\ [][ /\ interviewStage \in {"welcome", "report"} =>
                \/ qCheatingFlags' = qCheatingFlags
                \/ QReload /\ qCheatingFlags' = <<>>
          /\ assessmentStage \in {"welcome", "report"} =>
                \/ tCheatingFlags' = tCheatingFlags
                \/ TReload /\ tCheatingFlags' = <<>>
        ]_vars

\* C15 case: the question session is at its report with a flag recorded
\* during the interview.
C15_Witness ==
    Q /\ interviewStage = "report" /\ Len(qCheatingFlags) = 1

\* C16: in the active stage a paste on any text-capture surface appends a
\* 'paste' flag: the answer textarea of the question session, and in the
\* spreadsheet session every cell input and the formula-bar input.
C16_PasteOnEverySurface ==
    [][ /\ (interviewStage = "interview" /\ QHandlePaste) => QAdds(1, 0)
        /\ (assessmentStage = "tasks" /\ TCellPaste) => TAdds(1, 0)
        /\ \A value \in EditValues :
              (assessmentStage = "tasks" /\ TFormulaBarPaste(value)) => TAdds(1, 0)
      ]_vars

\* What a step of the question session does to the stage, the index and
\* the answers, told from the events alone: the start, the reload, or the
\* response `r` to the suspended call `i`.
QOutcomeStep ==
    \/ /\ interviewStage = "welcome" /\ interviewStage' = "interview"
       /\ UNCHANGED <<currentQuestionIndex, answers>>
    \/ interviewStage = "report" /\ QIsInitial'
    \/ \E i \in 1..Len(qInFlight), r \in Responses :
          LET call == qInFlight[i]
              evaluation == evaluateAnswer(call.apiKey, r)
          IN  /\ answers' = Append(answers,
                    [question |-> EXCEL_QUESTIONS[call.currentQuestionIndex + 1],
                     answer |-> call.currentAnswer,
                     score |-> evaluation.score,
                     justification |-> evaluation.justification])
              /\ IF call.currentQuestionIndex < Len(EXCEL_QUESTIONS) - 1
                 THEN /\ currentQuestionIndex' = currentQuestionIndex + 1
                      /\ interviewStage' = interviewStage
                 ELSE /\ currentQuestionIndex' = currentQuestionIndex
                      /\ interviewStage' = "report"

\* The same of the spreadsheet-task session.
TOutcomeStep ==
    \/ /\ assessmentStage = "welcome" /\ assessmentStage' = "tasks"
       /\ UNCHANGED <<currentTaskIndex, taskResults>>
    \/ assessmentStage = "report" /\ TIsInitial'
    \/ \E i \in 1..Len(tInFlight), r \in Responses :
          LET call == tInFlight[i]
              taskId == EXCEL_TASKS[call.currentTaskIndex + 1].id
              evaluation == evaluateTask(call.apiKey, taskId, r)
          IN  /\ taskResults' = Append(taskResults,
                    [taskId |-> taskId,
                     completed |-> evaluation.score >= 6,
                     score |-> evaluation.score,
                     justification |-> evaluation.justification,
                     actions |-> call.taskActions])
              /\ IF call.currentTaskIndex < Len(EXCEL_TASKS) - 1
                 THEN /\ currentTaskIndex' = currentTaskIndex + 1
                      /\ assessmentStage' = assessmentStage
                 ELSE /\ currentTaskIndex' = currentTaskIndex
                      /\ assessmentStage' = "report"

\* The call a submission suspends, told from what the screen holds and,
\* for an expiry, from what the interval closed over.
QCallOf == [currentQuestionIndex |-> currentQuestionIndex,
            currentAnswer |-> currentAnswer, apiKey |-> qApiKey]
TCallOf(closure) ==
    [currentTaskIndex |-> closure.currentTaskIndex,
     taskActions |-> SelectSeq(closure.spreadsheetActions,
                        LAMBDA action : action.timestamp >= closure.taskStartTime),
     apiKey |-> closure.apiKey]

C18_CountdownOfCurrentTask ==
    /\ [][ (currentTaskIndex' # currentTaskIndex /\ assessmentStage' = "tasks") =>
              /\ HasTask(currentTaskIndex')
              /\ timeRemaining' = timeLimit(currentTaskIndex')
         ]_vars
    /\ [](assessmentStage = "tasks" =>
              /\ HasTask(currentTaskIndex)
              /\ 0 <= timeRemaining
              /\ timeRemaining <= timeLimit(currentTaskIndex))

\* C19: in the spreadsheet-task session a tick occurs only in stage 'tasks'
\* with timeRemaining > 0; a tick with timeRemaining > 1 decrements it by
\* one and does nothing else; a tick with timeRemaining = 1 sets it to 0
\* and runs the completion of the current task; no tick changes
\* timeRemaining in welcome or report.
C19_TickSemantics ==
    /\ [](interval.set => (T /\ assessmentStage = "tasks" /\ timeRemaining > 0))
    /\ [][ TTick =>
              /\ assessmentStage = "tasks" /\ timeRemaining > 0
              /\ IF timeRemaining > 1
                 THEN /\ timeRemaining' = timeRemaining - 1
                      /\ UNCHANGED <<assessmentStage, currentTaskIndex,
                                     taskResults, spreadsheetActions,
                                     tCheatingFlags, taskStartTime, tIsLoading,
                                     tApiKey, tShowApiKeyInput, spreadsheetData,
                                     selectedCell, cellFormula, tInFlight>>
                 ELSE /\ timeRemaining' = 0
                      /\ tIsLoading'
                      /\ Len(tInFlight') = Len(tInFlight) + 1
                      /\ SubSeq(tInFlight', 1, Len(tInFlight)) = tInFlight
                      /\ tInFlight'[Len(tInFlight')].currentTaskIndex
                           = currentTaskIndex
         ]_vars

\* C19 case: the countdown has expired in stage 'tasks': timeRemaining is
\* 0, the interval is cleared and the completion of the task is under way.
C19_Witness ==
    /\ T /\ assessmentStage = "tasks" /\ timeRemaining = 0
    /\ ~interval.set /\ Len(tInFlight) = 1 /\ tIsLoading

\* C20: in the spreadsheet-task session no error is fatal: when the
\* countdown keeps ticking and every call issued is answered, whatever the
\* answer, a session in stage 'tasks' reaches stage 'report'.
C20_ReachesReport ==
    (T /\ assessmentStage = "tasks") ~> (T /\ assessmentStage = "report")

\* The CellActions recorded so far whose timestamp is at or after the start
\* of the current task, in recording order.
ActionsOfCurrentTask ==
    SelectSeq(spreadsheetActions, LAMBDA action : action.timestamp >= taskStartTime)

\* C21: in the spreadsheet-task session the actions a completion takes for
\* the TaskResult and the Evaluator are exactly the CellActions recorded
\* so far with a timestamp at or after the start of the task, by a click
\* and by an expiry alike, edits made since the last tick included.
C21_ActionsSinceTaskStart ==
    [][ Len(tInFlight') > Len(tInFlight) =>
            tInFlight'[Len(tInFlight')].taskActions = ActionsOfCurrentTask
      ]_vars

\* The sequence `before` is the beginning of the sequence `after`.
IsPrefix(before, after) ==
    Len(before) <= Len(after) /\ SubSeq(after, 1, Len(before)) = before

C23_OverallScoreIsRoundedMean ==
    scoring.pc = "shown" =>
        LET n == Len(scoring.records)
            S == SumScores(scoring.records)
        IN  scoring.overall = IF n = 0 THEN 0 ELSE (2 * S + n) \div (2 * n)

\* C23 case: the overall score of the scores 7 and 8, of mean 7.5, is shown.
C23_Witness ==
    /\ scoring.pc = "shown" /\ scoring.fn = "overallScore"
    /\ scoring.records = <<[score |-> 7], [score |-> 8]>>
    /\ scoring.overall = 8

\* Nothing of a session is held: the values the reset promises.
QIsClean ==
    /\ currentQuestionIndex = 0 /\ answers = <<>> /\ qCheatingFlags = <<>>
    /\ ~qIsLoading /\ qInFlight = <<>>
TIsClean ==
    /\ currentTaskIndex = 0 /\ taskResults = <<>> /\ tCheatingFlags = <<>>
    /\ ~tIsLoading /\ tInFlight = <<>> /\ spreadsheetData = InitialData

\* C24: in both sessions 'Take Assessment Again' on the report gives the
\* initial state (welcome, index 0, no results, no flags, not loading, the
\* grid the sample data), and nothing of the session before it, a call
\* still unresolved included, changes the state after it: the welcome stage
\* holds no result, flag or call.
C24_ResetGivesInitialState ==
    /\ [](/\ interviewStage = "welcome" => QIsClean
          /\ assessmentStage = "welcome" => TIsClean)
    /\ [][ /\ QReload => QIsInitial' /\ now' = 0 /\ failures' = <<>>
           /\ TReload => TIsInitial' /\ now' = 0 /\ failures' = <<>> ]_vars

\* C24 case: the reset is offered on a report that holds results and an
\* integrity flag.
C24_Witness ==
    /\ Q /\ interviewStage = "report"
    /\ Len(answers) = 5 /\ Len(qCheatingFlags) = 1

\* Every record of the list has the score s.
UniformScore(records, s) ==
    \A k \in 1..Len(records) : records[k].score = s

C26_StartEntersFirstItem ==
    [][ /\ (QStartAssessment /\ qApiKey # "") =>
              /\ interviewStage' = "interview" /\ currentQuestionIndex' = 0
              /\ startTime' = now' /\ startTime' # NoDate
              /\ answers' = <<>> /\ qCheatingFlags' = <<>>
        /\ (TStartAssessment /\ tApiKey # "") =>
              /\ assessmentStage' = "tasks" /\ currentTaskIndex' = 0
              /\ taskStartTime' = now' /\ taskStartTime' # NoDate
              /\ Task(0).timeLimit = 180
              /\ timeRemaining' = Task(0).timeLimit \div TimeScale
              /\ taskResults' = <<>> /\ tCheatingFlags' = <<>>
      ]_vars

\* C26 case: the task session was just started with an apiKey: the first
\* task is shown with its whole countdown.
C26_Witness ==
    /\ T /\ tApiKey # "" /\ assessmentStage = "tasks" /\ currentTaskIndex = 0
    /\ taskStartTime = now /\ timeRemaining = timeLimit(0)
    /\ taskResults = <<>> /\ tInFlight = <<>> /\ spreadsheetActions = <<>>

\* C27: in both sessions the index of the current item is always an index
\* of the item list, 0..4, so that EXCEL_QUESTIONS[currentQuestionIndex] and
\* EXCEL_TASKS[currentTaskIndex] are defined.
C27_IndexInRange ==
    /\ Q => currentQuestionIndex \in 0..(Len(EXCEL_QUESTIONS) - 1)
    /\ T => currentTaskIndex \in 0..(Len(EXCEL_TASKS) - 1)

\* C28: in both sessions at most one Evaluator call is unresolved at any
\* time.
C28_OneCallInFlight ==
    /\ Q => Len(qInFlight) <= 1
    /\ T => Len(tInFlight) <= 1

\* C29: in both sessions, while the stage stays 'report' the result list
\* and the index of the current item do not change.
C29_ReportIsFrozen ==
    [][ /\ (Q /\ interviewStage = "report" /\ interviewStage' = "report") =>
              UNCHANGED <<answers, currentQuestionIndex>>
        /\ (T /\ assessmentStage = "report" /\ assessmentStage' = "report") =>
              UNCHANGED <<taskResults, currentTaskIndex>>
      ]_vars

\* The places of the TaskResults where the CellAction `action` is held.
PlacesOf(action) ==
    UNION { { <<i, j>> : j \in { j \in 1..Len(taskResults[i].actions) :
                                    taskResults[i].actions[j] = action } } :
            i \in 1..Len(taskResults) }

\* C30: in the spreadsheet-task session, at the report every CellAction
\* recorded is held by the actions of exactly one TaskResult (as often as
\* it was recorded).
C30_EveryActionInOneResult ==
    (T /\ assessmentStage = "report") =>
        \A k \in 1..Len(spreadsheetActions) :
            LET action == spreadsheetActions[k]
                Same(other) == other = action
            IN  Cardinality(PlacesOf(action)) = Count(spreadsheetActions, Same)

\* The outcome of the evaluator called without an apiKey.
KeyRequired(record) ==
    record.justification = "API key required for evaluation"

\* C31: in both sessions, in every state whose stage is active or report
\* the apiKey is non-empty, a step between such states leaves it unchanged,
\* every call suspended at the Evaluator carries it, and no record of the
\* result list has the outcome 'API key required for evaluation'.
C31_CredentialKeptWhileActive ==
    /\ [](/\ (Q /\ interviewStage # "welcome") =>
                /\ qApiKey # ""
                /\ \A i \in 1..Len(qInFlight) : qInFlight[i].apiKey = qApiKey
                /\ \A k \in 1..Len(answers) : ~KeyRequired(answers[k])
          /\ (T /\ assessmentStage # "welcome") =>
                /\ tApiKey # ""
                /\ \A i \in 1..Len(tInFlight) : tInFlight[i].apiKey = tApiKey
                /\ interval.set => interval.closure.apiKey = tApiKey
                /\ \A k \in 1..Len(taskResults) : ~KeyRequired(taskResults[k]))
    /\ [][ /\ (interviewStage # "welcome" /\ interviewStage' # "welcome") =>
                qApiKey' = qApiKey
           /\ (assessmentStage # "welcome" /\ assessmentStage' # "welcome") =>
                tApiKey' = tApiKey ]_vars

\* C31 case: the question session runs with its apiKey: one answer is
\* recorded and the call for the second question carries the apiKey.
C31_Witness ==
    /\ Q /\ interviewStage = "interview" /\ qApiKey = "AIza-key"
    /\ Len(answers) = 1 /\ Len(qInFlight) = 1
    /\ qInFlight[1].apiKey = "AIza-key"

\* What the claim says of an edit of the cell `cell` to the value `value`.
EditEffect(cell, value) ==
    /\ Len(spreadsheetActions') = Len(spreadsheetActions) + 1
    /\ SubSeq(spreadsheetActions', 1, Len(spreadsheetActions)) = spreadsheetActions
    /\ LET action == spreadsheetActions'[Len(spreadsheetActions')]
       IN  /\ action.cell = <<Columns[cell[2] + 1], cell[1] + 1>>
           /\ action.oldValue = spreadsheetData[cell]
           /\ action.newValue = value
           /\ action.type = IF value # <<>> /\ value[1] = "="
                            THEN "formula_entered" ELSE "cell_edit"
    /\ spreadsheetData'[cell] = value
    /\ \A other \in (DOMAIN spreadsheetData) \ {cell} :
            spreadsheetData'[other] = spreadsheetData[other]
    /\ DOMAIN spreadsheetData' = DOMAIN spreadsheetData
    /\ UNCHANGED <<assessmentStage, currentTaskIndex, taskResults,
                   tCheatingFlags, timeRemaining, tIsLoading>>

\* C32: in the spreadsheet-task session an edit of cell (row, col) to v, by
\* the cell's input or by Enter in the formula bar, appends exactly one
\* CellAction (cell: column letter and row + 1; oldValue: the content
\* before, '' if none; newValue: v; type 'formula_entered' iff v starts
\* with '=', else 'cell_edit'), sets that cell to v, and leaves the other
\* cells, the stage, currentTaskIndex, taskResults, cheatingFlags,
\* timeRemaining and isLoading unchanged; and the grid and the list of
\* actions change in stage 'tasks' by such an edit only.
C32_CellEditEffect ==
    [][ /\ \A cell \in GridEditCells, value \in {<<>>} \cup EditValues :
              (\/ TCellChange(cell[1], cell[2], value)
               \/ (TFormulaBarEnter /\ selectedCell = cell /\ cellFormula = value))
              => EditEffect(cell, value)
        /\ (/\ assessmentStage = "tasks" /\ assessmentStage' = "tasks"
            /\ \/ spreadsheetActions' # spreadsheetActions
               \/ spreadsheetData' # spreadsheetData)
              => \E cell \in GridEditCells, value \in {<<>>} \cup EditValues :
                    EditEffect(cell, value)
      ]_vars

\* C32 case: while the call of a completion is pending, a formula was
\* entered into A10, a cell below the sample data that held nothing.
C32_Witness ==
    /\ T /\ assessmentStage = "tasks" /\ tIsLoading
    /\ spreadsheetActions =
          << [timestamp |-> 1, type |-> "formula_entered", cell |-> <<"A", 10>>,
              oldValue |-> <<>>,
              newValue |-> <<"=", "VLOOKUP(E2,A:B,2,FALSE)">>] >>
    /\ spreadsheetData[<<9, 0>>] = <<"=", "VLOOKUP(E2,A:B,2,FALSE)">>

\* The text is empty or only whitespace.
Blank(text) == trim(text) = <<>>

\* C33: in the question session no step taken while the current answer is
\* blank issues a call or changes isLoading, answers, currentQuestionIndex
\* or the stage, and the submit itself changes no flag either; every call
\* carries the text of the textarea as it is, which is not blank and stays
\* in the textarea while the call is pending; so every Answer recorded has
\* a non-blank text.
C33_BlankSubmitIsNoOp ==
    /\ [](Q => /\ \A k \in 1..Len(answers) : ~Blank(answers[k].answer)
               /\ \A i \in 1..Len(qInFlight) :
                     /\ ~Blank(qInFlight[i].currentAnswer)
                     /\ qInFlight[i].currentAnswer = currentAnswer)
    /\ [][ /\ (Q /\ interviewStage = "interview" /\ Blank(currentAnswer)) =>
                UNCHANGED <<qInFlight, qIsLoading, answers, currentQuestionIndex,
                            interviewStage>>
           /\ (QHandleSubmitAnswer /\ Blank(currentAnswer)) =>
                UNCHANGED qCheatingFlags
           /\ Len(answers') > Len(answers) =>
                /\ qInFlight # <<>>
                /\ answers'[Len(answers')].answer = currentAnswer ]_vars

\* C33 case: the first answer, ' a', is recorded as it was typed, and the
\* textarea of the second question holds only a space, with no call issued.
C33_Witness ==
    /\ Q /\ interviewStage = "interview" /\ currentQuestionIndex = 1
    /\ Len(answers) = 1 /\ answers[1].answer = <<" ", "a">>
    /\ currentAnswer = <<" ">> /\ qInFlight = <<>> /\ ~qIsLoading
=============================================================================
